---- MODULE Spec2Model ----
(***************************************************************************)
(* Project Tag Mover (src/project-tag-mover/main.js): the two commands     *)
(* moveAllFiles (batch) and moveActiveFile (single document) and the       *)
(* moveFileToProject they share.  Every await of the code is a step of its *)
(* own, so the two commands interleave at their awaits.                    *)
(*                                                                         *)
(* Strings are TLA+ strings; TLC evaluates Len, SubSeq and \o on them, so  *)
(* the JavaScript string methods are written character by character.       *)
(***************************************************************************)
EXTENDS Integers, Sequences, FiniteSets, TLC

(***************************************************************************)
(* JavaScript string primitives                                            *)
(***************************************************************************)
CharAt(s, i) == SubSeq(s, i, i)

\* String.prototype.startsWith / endsWith
StartsWith(s, p) == Len(p) <= Len(s) /\ SubSeq(s, 1, Len(p)) = p

EndsWith(s, p) == Len(p) <= Len(s) /\ SubSeq(s, Len(s) - Len(p) + 1, Len(s)) = p

\* s.substring(n) and s.substring(0, n), n counted from 0 as in JavaScript,
\* which clamps n to 0..s.length
Clamp(s, n) == IF n < 0 THEN 0 ELSE IF n > Len(s) THEN Len(s) ELSE n

Substring(s, n) == SubSeq(s, Clamp(s, n) + 1, Len(s))

SubstringTo(s, n) == SubSeq(s, 1, Clamp(s, n))

\* s.lastIndexOf("/"), 0-based, -1 when there is none
LastIndexOfSlash(s) ==
    LET P == {i \in 1..Len(s) : CharAt(s, i) = "/"}
    IN  IF P = {} THEN -1 ELSE (CHOOSE i \in P : \A j \in P : j <= i) - 1

\* s.replace(/^#/, "")
StripHash(s) == IF StartsWith(s, "#") THEN Substring(s, 1) ELSE s

\* the character classes of the regular expressions: \s and [\w/-]
Whitespace == {" ", "\n", "\t", "\r"}

WordChars ==
    {"a","b","c","d","e","f","g","h","i","j","k","l","m","n","o","p","q","r",
     "s","t","u","v","w","x","y","z","0","1","2","3","4","5","6","7","8","9",
     "_",
     "A","B","C","D","E","F","G","H","I","J","K","L","M","N","O","P","Q","R",
     "S","T","U","V","W","X","Y","Z"}

TagChars == WordChars \cup {"/", "-"}

IsSpace(c) == c \in Whitespace

\* s.trim()
RECURSIVE TrimLeft(_)
TrimLeft(s) ==
    IF Len(s) > 0 /\ IsSpace(CharAt(s, 1)) THEN TrimLeft(Substring(s, 1)) ELSE s

RECURSIVE TrimRight(_)
TrimRight(s) ==
    IF Len(s) > 0 /\ IsSpace(CharAt(s, Len(s)))
    THEN TrimRight(SubstringTo(s, Len(s) - 1)) ELSE s

Trim(s) == TrimRight(TrimLeft(s))

(***************************************************************************)
(* normalizePath of the host API (imported at main.js:10, called at 216    *)
(* and 241): every run of '/' and '\' becomes one '/', leading and         *)
(* trailing '/' are removed, and the empty result becomes "/".  It does    *)
(* not resolve "." or ".." segments.  (Its rewriting of non-breaking       *)
(* spaces and its Unicode NFC step act on characters outside the alphabet  *)
(* of this model.)                                                         *)
(***************************************************************************)
IsSep(c) == c \in {"/", "\\"}

RECURSIVE CollapseSeps(_)
CollapseSeps(s) ==
    IF Len(s) = 0 THEN ""
    ELSE IF IsSep(CharAt(s, 1))
         THEN IF Len(s) > 1 /\ IsSep(CharAt(s, 2))
              THEN CollapseSeps(Substring(s, 1))
              ELSE "/" \o CollapseSeps(Substring(s, 1))
         ELSE CharAt(s, 1) \o CollapseSeps(Substring(s, 1))

TrimSlashes(s) ==
    LET a == IF StartsWith(s, "/") THEN Substring(s, 1) ELSE s
    IN  IF EndsWith(a, "/") THEN SubstringTo(a, Len(a) - 1) ELSE a

normalizePath(path) ==
    LET t == TrimSlashes(CollapseSeps(path))
    IN  IF t = "" THEN "/" ELSE t

(***************************************************************************)
(* Tag extraction: frontmatter (main.js:69-81 and 149-162) and body        *)
(***************************************************************************)
NoMatch == [found |-> FALSE, block |-> "", len |-> 0]

\* content.match(/^---\s*\n([\s\S]*?)\n---/): "---" at the start, a greedy
\* run of whitespace that gives back characters until a "\n" follows it, the
\* shortest block, and the first "\n---" after it
FrontmatterMatch(content) ==
    IF ~StartsWith(content, "---") THEN NoMatch
    ELSE LET Closers(p) == {q \in (p + 1)..(Len(content) - 3) :
                               SubSeq(content, q, q + 3) = "\n---"}
             P == {p \in 4..Len(content) :
                      /\ \A k \in 4..(p - 1) : IsSpace(CharAt(content, k))
                      /\ CharAt(content, p) = "\n"
                      /\ Closers(p) # {}}
         IN  IF P = {} THEN NoMatch
             ELSE LET p == CHOOSE x \in P : \A y \in P : y <= x
                      q == CHOOSE x \in Closers(p) : \A y \in Closers(p) : x <= y
                  IN  [found |-> TRUE,
                       block |-> SubSeq(content, p + 1, q - 1),
                       len   |-> q + 3]

\* fmMatch ? content.slice(fmMatch[0].length) : content
BodyOf(content) ==
    LET m == FrontmatterMatch(content)
    IN  IF m.found THEN Substring(content, m.len) ELSE content

\* s.split(sep) for a one-character separator
RECURSIVE SplitAcc(_, _, _)
SplitAcc(s, sep, cur) ==
    IF Len(s) = 0 THEN <<cur>>
    ELSE IF CharAt(s, 1) = sep
         THEN <<cur>> \o SplitAcc(Substring(s, 1), sep, "")
         ELSE SplitAcc(Substring(s, 1), sep, cur \o CharAt(s, 1))

Split(s, sep) == SplitAcc(s, sep, "")

Quotes == {"\"", "'"}

\* a quoted YAML scalar loses its pair of quotes
Unquote(v) ==
    IF Len(v) >= 2 /\ CharAt(v, 1) \in Quotes /\ CharAt(v, Len(v)) = CharAt(v, 1)
    THEN SubSeq(v, 2, Len(v) - 1) ELSE v

HasChar(s, c) == \E i \in 1..Len(s) : CharAt(s, i) = c

\* parseYaml of the host API (main.js:153), followed by the reading of the
\* tags key (main.js:154-155), for the block shapes of the documents below:
\* "tags: scalar", "tags: [a, b]", other "key: value" lines.  A flow
\* sequence that is not closed makes the parser throw (ok = FALSE).
ParseYamlTags(block) ==
    LET lines  == Split(block, "\n")
        broken == \E i \in 1..Len(lines) :
                     HasChar(lines[i], "[") /\ ~EndsWith(Trim(lines[i]), "]")
        T      == {i \in 1..Len(lines) : StartsWith(lines[i], "tags:")}
    IN  IF broken THEN [ok |-> FALSE, tags |-> <<>>]
        ELSE IF T = {} THEN [ok |-> TRUE, tags |-> <<>>]
        ELSE LET i == CHOOSE x \in T : \A y \in T : x <= y
                 v == Trim(Substring(lines[i], 5))
             IN  IF v = "" THEN [ok |-> TRUE, tags |-> <<>>]
                 ELSE IF StartsWith(v, "[")
                 THEN LET items == Split(SubSeq(v, 2, Len(v) - 1), ",")
                      IN  [ok |-> TRUE,
                           tags |-> [k \in 1..Len(items) |-> Unquote(Trim(items[k]))]]
                 ELSE [ok |-> TRUE, tags |-> <<Unquote(v)>>]

\* the try/catch around parseYaml: a block that fails to parse gives no tags
FrontmatterTags(content) ==
    LET m == FrontmatterMatch(content)
    IN  IF ~m.found THEN <<>>
        ELSE LET y == ParseYamlTags(m.block)
             IN  IF y.ok THEN y.tags ELSE <<>>

\* the maximal runs of non-whitespace characters of s, in order
RECURSIVE ChunksAcc(_, _)
ChunksAcc(s, cur) ==
    IF Len(s) = 0 THEN (IF cur = "" THEN <<>> ELSE <<cur>>)
    ELSE IF IsSpace(CharAt(s, 1))
         THEN (IF cur = "" THEN <<>> ELSE <<cur>>) \o ChunksAcc(Substring(s, 1), "")
         ELSE ChunksAcc(Substring(s, 1), cur \o CharAt(s, 1))

Chunks(s) == ChunksAcc(s, "")

AllTagChars(s) == Len(s) > 0 /\ \A i \in 1..Len(s) : CharAt(s, i) \in TagChars

\* processFile's body scan, /(?:^|\s)(?:#)?([\w/-]+)(?=\s|$)/g: a token is
\* preceded by whitespace or the start of the text and followed by whitespace
\* or its end, so it is a whole whitespace-delimited chunk, of the shape
\* #?[\w/-]+; the captured group leaves the '#' out
RECURSIVE BodyTokens(_)
BodyTokens(chunks) ==
    IF chunks = <<>> THEN <<>>
    ELSE LET c == StripHash(Head(chunks))
         IN  (IF AllTagChars(c) THEN <<c>> ELSE <<>>) \o BodyTokens(Tail(chunks))

MapStripHash(ts) == [i \in 1..Len(ts) |-> StripHash(ts[i])]

\* processFile, main.js:147-171: the tags of a document, frontmatter first
BatchTags(content) ==
    MapStripHash(FrontmatterTags(content)) \o BodyTokens(Chunks(BodyOf(content)))

(***************************************************************************)
(* moveActiveFile's own extraction and choice of tag (main.js:83-106)      *)
(***************************************************************************)
\* the length of the longest run of [^\s#] characters at the start of s
RECURSIVE RunLen(_)
RunLen(s) ==
    IF Len(s) > 0 /\ ~IsSpace(CharAt(s, 1)) /\ CharAt(s, 1) # "#"
    THEN 1 + RunLen(Substring(s, 1)) ELSE 0

\* the length of the match of [#]?<prefix>[^\s#]+ at the start of s, 0 when
\* there is none; the prefixes of this model hold no regular-expression
\* metacharacter, so the prefix matches itself
PrefixMatchLen(s, rawPrefix) ==
    LET withHash == IF StartsWith(s, "#" \o rawPrefix)
                    THEN RunLen(Substring(s, 1 + Len(rawPrefix))) ELSE 0
        without  == IF StartsWith(s, rawPrefix)
                    THEN RunLen(Substring(s, Len(rawPrefix))) ELSE 0
    IN  IF withHash > 0 THEN 1 + Len(rawPrefix) + withHash
        ELSE IF without > 0 THEN Len(rawPrefix) + without
        ELSE 0

\* body.match(regex) with the g flag: the matches from left to right, each
\* search resuming where the previous match ended
RECURSIVE PrefixMatches(_, _)
PrefixMatches(s, rawPrefix) ==
    IF Len(s) = 0 THEN <<>>
    ELSE LET n == PrefixMatchLen(s, rawPrefix)
         IN  IF n > 0
             THEN <<SubstringTo(s, n)>> \o PrefixMatches(Substring(s, n), rawPrefix)
             ELSE PrefixMatches(Substring(s, 1), rawPrefix)

\* moveActiveFile, main.js:67-92: frontmatter tags as they are, then the
\* body matches of the prefix
SingleTags(content, tagPrefix) ==
    FrontmatterTags(content) \o PrefixMatches(BodyOf(content), StripHash(tagPrefix))

RECURSIVE StripLeadingQH(_)
StripLeadingQH(s) ==
    IF Len(s) > 0 /\ CharAt(s, 1) \in (Quotes \cup {"#"})
    THEN StripLeadingQH(Substring(s, 1)) ELSE s

RECURSIVE StripTrailingQ(_)
StripTrailingQ(s) ==
    IF Len(s) > 0 /\ CharAt(s, Len(s)) \in Quotes
    THEN StripTrailingQ(SubstringTo(s, Len(s) - 1)) ELSE s

\* String(t).replace(/^["'#]+|["']+$/g, "").replace(/^#/, "")
CleanTag(t) == StripHash(StripTrailingQ(StripLeadingQH(t)))

\* the index of the first element of ts that starts with p, 0 when none does
FirstWithPrefix(ts, p) ==
    LET I == {i \in 1..Len(ts) : StartsWith(ts[i], p)}
    IN  IF I = {} THEN 0 ELSE CHOOSE i \in I : \A j \in I : i <= j

NoDestination == [kind |-> "none", destination |-> "", isFullPath |-> FALSE]

\* moveActiveFile, main.js:96-107: the first cleaned tag that starts with the
\* prefix; an empty one is falsy and counts as not found
SingleResolve(tags, tagPrefix) ==
    LET rawPrefix == StripHash(tagPrefix)
        cleaned   == [i \in 1..Len(tags) |-> CleanTag(tags[i])]
        k         == FirstWithPrefix(cleaned, rawPrefix)
    IN  IF k = 0 \/ cleaned[k] = "" THEN NoDestination
        ELSE [kind |-> "prefix",
              destination |-> Substring(cleaned[k], Len(rawPrefix)),
              isFullPath  |-> FALSE]

(***************************************************************************)
(* processFile's resolution (main.js:179-211)                              *)
(***************************************************************************)
\* tagRules.find(r => r.tagPattern.replace(/^#/, "") === normalizedPattern):
\* the index of the first such rule from index k on, 0 when there is none
RECURSIVE FindRule(_, _, _)
FindRule(rules, normalizedPattern, k) ==
    IF k > Len(rules) THEN 0
    ELSE IF StripHash(rules[k].tagPattern) = normalizedPattern THEN k
    ELSE FindRule(rules, normalizedPattern, k + 1)

\* RulePass as it would be with the rules in the outer loop
RulePassRulesOuter(tags, rules, i) ==
    LET K == {k \in 1..Len(rules) :
                 \E j \in i..Len(tags) : StripHash(rules[k].tagPattern) = StripHash(tags[j])}
    IN  IF K = {} THEN [tag |-> 0, rule |-> 0]
        ELSE LET k == CHOOSE x \in K : \A y \in K : x <= y
                 J == {j \in i..Len(tags) :
                          StripHash(rules[k].tagPattern) = StripHash(tags[j])}
             IN  [tag |-> CHOOSE x \in J : \A y \in J : x <= y, rule |-> k]

\* for (const pattern of tags): the first tag, from index i on, for which a
\* rule is found, with that rule
RECURSIVE RulePass(_, _, _)
RulePass(tags, rules, i) ==
    IF i > Len(tags) THEN [tag |-> 0, rule |-> 0]
    ELSE LET r == FindRule(rules, StripHash(tags[i]), 1)
         IN  IF r # 0 THEN [tag |-> i, rule |-> r]
             ELSE RulePass(tags, rules, i + 1)

\* PrefixPass as it would be if it fell back to the first tag
PrefixPassAnyTag(tags, tagPrefix) ==
    LET pjtPrefix == StripHash(tagPrefix)
        k         == FirstWithPrefix(tags, pjtPrefix)
        j         == IF k = 0 /\ Len(tags) > 0 THEN 1 ELSE k
    IN  IF j = 0 \/ tags[j] = "" THEN NoDestination
        ELSE [kind |-> "prefix",
              destination |-> Substring(tags[j], Len(pjtPrefix)),
              isFullPath  |-> FALSE]

\* main.js:198-209: tags.find(t => t.startsWith(pjtPrefix)); an empty tag is
\* falsy and counts as not found
PrefixPass(tags, tagPrefix) ==
    LET pjtPrefix == StripHash(tagPrefix)
        k         == FirstWithPrefix(tags, pjtPrefix)
    IN  IF k = 0 \/ tags[k] = "" THEN NoDestination
        ELSE [kind |-> "prefix",
              destination |-> Substring(tags[k], Len(pjtPrefix)),
              isFullPath  |-> FALSE]

\* BatchResolve as it would be with the prefix tried before the rules
BatchResolvePrefixFirst(tags, rules, tagPrefix) ==
    LET m == RulePass(tags, rules, 1)
        d == PrefixPass(tags, tagPrefix)
    IN  IF d.kind # "none" THEN d
        ELSE IF m.rule # 0
        THEN [kind |-> "rule",
              destination |-> rules[m.rule].destination,
              isFullPath  |-> TRUE]
        ELSE NoDestination

\* the destination processFile hands to moveFileToProject, if any
BatchResolve(tags, rules, tagPrefix) ==
    LET m == RulePass(tags, rules, 1)
    IN  IF m.rule # 0
        THEN [kind |-> "rule",
              destination |-> rules[m.rule].destination,
              isFullPath  |-> TRUE]
        ELSE PrefixPass(tags, tagPrefix)

(***************************************************************************)
(* The plugin's state                                                      *)
(***************************************************************************)
VARIABLES
    settings,    \* this.settings: tagPrefix, rootFolder, notesFolder, tagRules
    files,       \* the vault's Markdown files (TFile: path, name), with content
    folders,     \* the folders that exist in the vault (adapter.exists)
    activeFile,  \* workspace.getActiveFile(): an index of files, 0 for none
    batch,       \* moveAllFiles: position, targetFiles, loop index, counters
    single,      \* moveActiveFile: position
    att,         \* per command, the file being handled and what was decided
    requests,    \* the requests made to the storage collaborator, in order
    edits        \* the number of edits made in the settings panel

vars == <<settings, files, folders, activeFile, batch, single, att, requests,
          edits>>

Cmds == {"batch", "single"}

\* bound: the number of Markdown files in the vault
MaxFiles == 2

Rule(p, d) == [tagPattern |-> p, destination |-> d]

\* main.js:14-28
DEFAULT_SETTINGS ==
    [tagPrefix   |-> "#pjt/",
     rootFolder  |-> "03_project",
     notesFolder |-> "02/notes",
     tagRules    |-> <<Rule("work/urgent", "01_inbox/urgent"),
                       Rule("personal/health", "04_personal/health")>>]

\* loadSettings (main.js:282-284): the defaults overridden by whatever was
\* saved; the saved configurations considered
SavedSettings ==
    {DEFAULT_SETTINGS,
     [DEFAULT_SETTINGS EXCEPT
        !.tagRules = <<Rule("#work/urgent", "/01_inbox//urgent/"),
                       Rule("work/urgent", "05_other"),
                       Rule("personal/health", "../outside")>>],
     [DEFAULT_SETTINGS EXCEPT
        !.tagPrefix = "pjt/", !.rootFolder = "..",
        !.tagRules = <<Rule("personal/health", "."), Rule("todo", "/")>>],
     [DEFAULT_SETTINGS EXCEPT
        !.rootFolder = "03_project/", !.notesFolder = "02",
        !.tagRules = <<>>]}

File(p, n, c) == [path |-> p, name |-> n, content |-> c]

\* the documents considered, in the order in which windows of them make up
\* the vault's listing
Documents ==
    <<File("02/notes/a.md", "a.md", "plan #pjt/q1 work/urgent"),
      File("02/notes/b.md", "b.md", "(untagged)"),
      File("02/notes/c.md", "c.md", "personal/health and work/urgent"),
      File("02/notes/d.md", "d.md", "---\ntags: [\"#pjt/q2/\", todo]\n---\nsome text."),
      File("02/notes/e.md", "e.md", "---\ntags: pjt/../../etc\n---\n"),
      File("02/notes/f.md", "f.md", "random words"),
      File("02/notes2/g.md", "g.md", "#pjt/q1//x"),
      File("09/h.md", "h.md", "---\ntags: [pjt/q3\n---\n#pjt/q1"),
      File("02/notes/i.md", "i.md", "---\ntags: \"##work/urgent\"\n---\n"),
      File("02/notes/j.md", "j.md", "---\ntags: pjt/q9\nnotes #pjt/q1"),
      File("02/notes/k.md", "k.md", "---\ntags: [pjt/q3\n---\nsee #pjt/q4 todo")>>

Vaults ==
    {SubSeq(Documents, w[1], w[2]) :
        w \in {v \in (1..Len(Documents)) \X (1..Len(Documents)) :
                  v[1] <= v[2] /\ v[2] - v[1] < MaxFiles}}

InitialFolders == {"02", "02/notes", "02/notes2", "09", "01_inbox", "01_inbox/urgent"}

NoAttempt ==
    [n |-> 0, file |-> 0, step |-> "none", outcome |-> "none",
     tags |-> <<>>, cfg |-> DEFAULT_SETTINGS, res |-> NoDestination,
     seg |-> "", targetPath |-> "", folderPath |-> ""]

Init ==
    /\ settings \in SavedSettings
    /\ files \in Vaults
    /\ folders = InitialFolders
    /\ activeFile \in 0..Len(files)
    /\ batch = [pc |-> "idle", targetFiles |-> <<>>, i |-> 0,
                successCount |-> 0, failCount |-> 0]
    /\ single = "idle"
    /\ att = [c \in Cmds |-> NoAttempt]
    /\ requests = <<>>
    /\ edits = 0

(***************************************************************************)
(* moveFileToProject (main.js:214-276)                                     *)
(***************************************************************************)
Request(c, op, path, ok) ==
    [cmd |-> c, n |-> att[c].n, file |-> att[c].file, op |-> op,
     path |-> path, ok |-> ok]

\* InvalidSegment as it would be without the test for "."
InvalidSegmentNoDot(sanitizedPathSegment) ==
    \/ sanitizedPathSegment = ""
    \/ StartsWith(sanitizedPathSegment, "..")

\* main.js:219
InvalidSegment(sanitizedPathSegment) ==
    \/ sanitizedPathSegment = ""
    \/ sanitizedPathSegment = "."
    \/ StartsWith(sanitizedPathSegment, "..")

\* TargetPath as it would be if the root folder were prepended to full paths
TargetPathAlwaysRoot(sanitizedPathSegment, isFullPath, rootFolder, name) ==
    normalizePath(rootFolder \o "/" \o sanitizedPathSegment \o "/" \o name)

\* main.js:225-241
TargetPath(sanitizedPathSegment, isFullPath, rootFolder, name) ==
    LET baseFolder == IF isFullPath THEN "" ELSE rootFolder
        preliminaryTargetPath ==
            IF isFullPath THEN sanitizedPathSegment \o "/" \o name
            ELSE baseFolder \o "/" \o sanitizedPathSegment \o "/" \o name
    IN  normalizePath(preliminaryTargetPath)

\* EscapesVault as it would be without the check
EscapesVaultUnchecked(targetPath) == FALSE

\* main.js:246
EscapesVault(targetPath) == StartsWith(targetPath, "../")

\* main.js:252
FolderPath(targetPath) == SubstringTo(targetPath, LastIndexOfSlash(targetPath))

\* main.js:259: the exists check is made only for a non-empty folderPath
FirstStep(folderPath) == IF folderPath # "" THEN "exists" ELSE "rename"

\* the synchronous start of moveFileToProject, up to its first await: the
\* attempt a with its path decided, or with the move refused
MoveStart(a, name, path, isFullPath) ==
    LET sanitizedPathSegment == normalizePath(path)
        targetPath == TargetPath(sanitizedPathSegment, isFullPath,
                                 settings.rootFolder, name)
        folderPath == FolderPath(targetPath)
    IN  IF InvalidSegment(sanitizedPathSegment)
        THEN [a EXCEPT !.seg = sanitizedPathSegment, !.outcome = "invalid"]
        ELSE IF EscapesVault(targetPath)
        THEN [a EXCEPT !.seg = sanitizedPathSegment, !.targetPath = targetPath,
                       !.outcome = "escape"]
        ELSE [a EXCEPT !.seg = sanitizedPathSegment, !.targetPath = targetPath,
                       !.folderPath = folderPath, !.outcome = "inflight",
                       !.step = FirstStep(folderPath)]

(***************************************************************************)
(* moveAllFiles (main.js:110-136)                                          *)
(***************************************************************************)
\* main.js:112-115
TargetFiles ==
    SelectSeq([k \in 1..Len(files) |-> k],
              LAMBDA k : /\ StartsWith(files[k].path, settings.notesFolder)
                         /\ EndsWith(files[k].path, ".md"))

\* the loop moves on to the next file, or to the final Notice after the last
Advance(b) ==
    [b EXCEPT !.i = @ + 1,
              !.pc = IF b.i + 1 > Len(b.targetFiles) THEN "done" ELSE "read"]

\* main.js:127-128: processFile returned
CountSuccess(b) == Advance([b EXCEPT !.successCount = @ + 1])

\* CountFailure as it would be if the catch ended the loop
CountFailureAbort(b) == [b EXCEPT !.failCount = @ + 1, !.i = @ + 1, !.pc = "done"]

\* main.js:129-132: processFile threw
CountFailure(b) == Advance([b EXCEPT !.failCount = @ + 1])

\* main.js:190-194 and 204-208: processFile returns when moveFileToProject
\* returned true and throws when it returned false
AfterMove(b, moveSuccess) ==
    IF moveSuccess THEN CountSuccess(b) ELSE CountFailure(b)

MoveAllFiles ==
    /\ batch.pc = "idle"
    /\ batch' = IF Len(TargetFiles) = 0
                THEN [batch EXCEPT !.pc = "done"]
                ELSE [batch EXCEPT !.pc = "read", !.targetFiles = TargetFiles,
                                   !.i = 1]
    /\ UNCHANGED <<edits, settings, files, folders, activeFile, single, att, requests>>

\* ProcessFile as it would be without the try/catch around parseYaml
ProcessFileNoCatch(a, file) ==
    LET m    == FrontmatterMatch(file.content)
        tags == BatchTags(file.content)
        res  == BatchResolve(tags, settings.tagRules, settings.tagPrefix)
        b    == [a EXCEPT !.tags = tags, !.cfg = settings, !.res = res]
    IN  IF m.found /\ ~ParseYamlTags(m.block).ok
        THEN [a EXCEPT !.outcome = "readFail"]
        ELSE IF Len(tags) = 0 THEN [b EXCEPT !.outcome = "noTags"]
        ELSE IF res.kind = "none" THEN [b EXCEPT !.outcome = "noMatch"]
        ELSE MoveStart(b, file.name, res.destination, res.isFullPath)

\* processFile after the read (main.js:147-211), up to the first await of
\* moveFileToProject
ProcessFile(a, file) ==
    LET tags == BatchTags(file.content)
        res  == BatchResolve(tags, settings.tagRules, settings.tagPrefix)
        b    == [a EXCEPT !.tags = tags, !.cfg = settings, !.res = res]
    IN  IF Len(tags) = 0 THEN [b EXCEPT !.outcome = "noTags"]
        ELSE IF res.kind = "none" THEN [b EXCEPT !.outcome = "noMatch"]
        ELSE MoveStart(b, file.name, res.destination, res.isFullPath)

\* AwaitMove as it would be if the move were started and not awaited
AwaitMoveNot(b) == Advance(b)

\* main.js:190 and 204: await this.moveFileToProject(...), the loop waits
AwaitMove(b) == [b EXCEPT !.pc = "move"]

\* one iteration of the loop, from the call of processFile to the first await
\* after the read, or to the catch
BatchRead(ok) ==
    /\ batch.pc = "read"
    /\ LET f   == batch.targetFiles[batch.i]
           a0  == [NoAttempt EXCEPT !.n = batch.i, !.file = f]
           a   == IF ok THEN ProcessFile(a0, files[f])
                  ELSE [a0 EXCEPT !.outcome = "readFail"]
       IN  /\ att' = [att EXCEPT !["batch"] = a]
           /\ requests' = Append(requests,
                 [cmd |-> "batch", n |-> batch.i, file |-> f, op |-> "read",
                  path |-> files[f].path, ok |-> ok])
           /\ batch' = IF a.outcome = "inflight"
                       THEN AwaitMove(batch)
                       ELSE CountFailure(batch)
    /\ UNCHANGED <<edits, settings, files, folders, activeFile, single>>

(***************************************************************************)
(* moveActiveFile (main.js:51-108)                                         *)
(***************************************************************************)
MoveActiveFile ==
    /\ single = "idle"
    /\ single' = IF activeFile = 0 \/ ~EndsWith(files[activeFile].path, ".md")
                 THEN "done" ELSE "read"
    /\ UNCHANGED <<edits, settings, files, folders, activeFile, batch, att, requests>>

SingleProcess(a, file) ==
    LET tags == SingleTags(file.content, settings.tagPrefix)
        res  == SingleResolve(tags, settings.tagPrefix)
        b    == [a EXCEPT !.tags = tags, !.cfg = settings, !.res = res]
    IN  IF res.kind = "none" THEN [b EXCEPT !.outcome = "noMatch"]
        ELSE MoveStart(b, file.name, res.destination, FALSE)

SingleRead(ok) ==
    /\ single = "read"
    /\ LET f  == activeFile
           a0 == [NoAttempt EXCEPT !.n = 1, !.file = f]
           a  == IF ok THEN SingleProcess(a0, files[f])
                 ELSE [a0 EXCEPT !.outcome = "readFail"]
       IN  /\ att' = [att EXCEPT !["single"] = a]
           /\ requests' = Append(requests,
                 [cmd |-> "single", n |-> 1, file |-> f, op |-> "read",
                  path |-> files[f].path, ok |-> ok])
           /\ single' = IF a.outcome = "inflight" THEN "move" ELSE "done"
    /\ UNCHANGED <<edits, settings, files, folders, activeFile, batch>>

(***************************************************************************)
(* The awaited steps of moveFileToProject (main.js:257-275)                *)
(***************************************************************************)
\* moveFileToProject returns to the command that called it
Return(c, moveSuccess) ==
    IF c = "batch"
    THEN batch' = AfterMove(batch, moveSuccess) /\ UNCHANGED single
    ELSE single' = "done" /\ UNCHANGED batch

\* main.js:259-260: mkdir is requested when the folder does not exist
StepAfterExists(exists) == IF exists THEN "rename" ELSE "mkdir"

MoveExists(c) ==
    /\ att[c].step = "exists"
    /\ LET exists == att[c].folderPath \in folders
       IN  /\ requests' = Append(requests,
                              Request(c, "exists", att[c].folderPath, exists))
           /\ att' = [att EXCEPT ![c].step = StepAfterExists(exists)]
    /\ UNCHANGED <<edits, settings, files, folders, activeFile, batch, single>>

\* a recursive mkdir makes the folder and the folders above it
Ancestors(path) ==
    {SubstringTo(path, i - 1) : i \in {j \in 2..Len(path) : CharAt(path, j) = "/"}}
        \cup {path}

\* StepAfterMkdir as it would be if the failure were swallowed
StepAfterMkdirIgnored(ok) == "rename"

\* main.js:260 and 271-274: a mkdir that fails ends the move in the catch
StepAfterMkdir(ok) == IF ok THEN "rename" ELSE "none"

MoveMkdir(c, ok) ==
    /\ att[c].step = "mkdir"
    /\ requests' = Append(requests, Request(c, "mkdir", att[c].folderPath, ok))
    /\ att' = [att EXCEPT ![c].step = StepAfterMkdir(ok),
                          ![c].outcome = IF ok THEN @ ELSE "ioFail"]
    /\ folders' = IF ok THEN folders \cup Ancestors(att[c].folderPath)
                  ELSE folders
    /\ IF StepAfterMkdir(ok) = "rename" THEN UNCHANGED <<batch, single>>
       ELSE Return(c, FALSE)
    /\ UNCHANGED <<edits, settings, files, activeFile>>

\* MoveResult as it would be if the catch did not report the failure
MoveResultSwallowed(ok) == TRUE

\* main.js:267-275: true after the rename, false from the catch
MoveResult(ok) == ok

MoveRename(c, ok) ==
    /\ att[c].step = "rename"
    /\ requests' = Append(requests, Request(c, "rename", att[c].targetPath, ok))
    /\ att' = [att EXCEPT ![c].step = "none",
                          ![c].outcome = IF ok THEN "moved" ELSE "ioFail"]
    /\ files' = IF ok
                THEN [files EXCEPT ![att[c].file].path = att[c].targetPath]
                ELSE files
    /\ Return(c, MoveResult(ok))
    /\ UNCHANGED <<edits, settings, folders, activeFile>>

Next ==
    \/ MoveAllFiles
    \/ \E ok \in BOOLEAN : BatchRead(ok)
    \/ MoveActiveFile
    \/ \E ok \in BOOLEAN : SingleRead(ok)
    \/ \E c \in Cmds : MoveExists(c)
    \/ \E c \in Cmds, ok \in BOOLEAN : MoveMkdir(c, ok)
    \/ \E c \in Cmds, ok \in BOOLEAN : MoveRename(c, ok)

Spec == Init /\ [][Next]_vars

\* every request that the batch awaits is answered by the host: the read,
\* the exists check, the mkdir and the rename each complete or fail
BatchFairness ==
    /\ WF_vars(\E ok \in BOOLEAN : BatchRead(ok))
    /\ WF_vars(MoveExists("batch"))
    /\ WF_vars(\E ok \in BOOLEAN : MoveMkdir("batch", ok))
    /\ WF_vars(\E ok \in BOOLEAN : MoveRename("batch", ok))

FairSpec == Spec /\ BatchFairness

(***************************************************************************)
(* The settings panel (main.js:293-453).  Each handler assigns to          *)
(* this.settings and then awaits saveSettings, whose outcome changes       *)
(* nothing that is modelled here.  A handler runs whenever its event       *)
(* arrives, also while a command is waiting at an await.  (The add-rule    *)
(* handler at main.js:377-394 lacks the `try` that its catch and finally   *)
(* belong to; it is modelled as the try/catch/finally of the delete        *)
(* handler at 439-450.)                                                    *)
(***************************************************************************)
\* bound: the number of edits made in the settings panel
MaxEdits == 1

\* what is typed into a text field of the panel
TypedValues == {" #todo "}

Edited(s) ==
    /\ edits < MaxEdits
    /\ settings' = s
    /\ edits' = edits + 1
    /\ UNCHANGED <<files, folders, activeFile, batch, single, att, requests>>

\* main.js:311-319
SetTagPrefix(value) == Edited([settings EXCEPT !.tagPrefix = Trim(value)])

\* main.js:329-337
SetRootFolder(value) == Edited([settings EXCEPT !.rootFolder = Trim(value)])

\* main.js:347-355
SetNotesFolder(value) == Edited([settings EXCEPT !.notesFolder = Trim(value)])

\* main.js:377-394
AddRule == Edited([settings EXCEPT !.tagRules = Append(@, Rule("", ""))])

\* main.js:408-420
SetRulePattern(index, value) ==
    /\ index \in 1..Len(settings.tagRules)
    /\ Edited([settings EXCEPT !.tagRules[index].tagPattern = StripHash(Trim(value))])

\* main.js:426-434
SetRuleDestination(index, value) ==
    /\ index \in 1..Len(settings.tagRules)
    /\ Edited([settings EXCEPT !.tagRules[index].destination = Trim(value)])

\* main.js:439-450: tagRules.splice(index, 1)
DeleteRule(index) ==
    /\ index \in 1..Len(settings.tagRules)
    /\ Edited([settings EXCEPT
                 !.tagRules = SubSeq(@, 1, index - 1) \o SubSeq(@, index + 1, Len(@))])

Panel ==
    \/ \E value \in TypedValues : SetTagPrefix(value)
    \/ \E value \in TypedValues : SetRootFolder(value)
    \/ \E value \in TypedValues : SetNotesFolder(value)
    \/ AddRule
    \/ \E index \in 1..Len(settings.tagRules), value \in TypedValues :
          SetRulePattern(index, value)
    \/ \E index \in 1..Len(settings.tagRules), value \in TypedValues :
          SetRuleDestination(index, value)
    \/ \E index \in 1..Len(settings.tagRules) : DeleteRule(index)

NextWithPanel == Next \/ Panel

\* the plugin starts with the default settings, on a vault whose listing
\* starts with the first document
InitPanel ==
    /\ Init
    /\ settings = DEFAULT_SETTINGS
    /\ Head(files) = Head(Documents)

\* the commands together with the settings panel
SpecPanel == InitPanel /\ [][NextWithPanel]_vars

(***************************************************************************)
(* Properties                                                              *)
(***************************************************************************)
\* the positions in requests of the requests op of attempt n of command c
ReqIdx(c, n, op) ==
    {k \in 1..Len(requests) :
        requests[k].cmd = c /\ requests[k].n = n /\ requests[k].op = op}

StorageOps == {"exists", "mkdir", "rename"}

\* attempt n of command c made no exists, mkdir or rename request
NoStorageRequest(c, n) == \A op \in StorageOps : ReqIdx(c, n, op) = {}

BatchReads == SelectSeq(requests, LAMBDA r : r.cmd = "batch" /\ r.op = "read")

BatchRenames == SelectSeq(requests, LAMBDA r : r.cmd = "batch" /\ r.op = "rename")

\* C1: the batch attempts the filtered files one by one in list order, each
\* exactly once, whatever happened to the files before; it never renames a
\* file twice (a move is not undone); the counters add up to the number of
\* attempts completed, and to the number of filtered files at the end
C1_BatchAttemptsEveryFile ==
    LET reads     == BatchReads
        completed == IF batch.pc = "move" THEN Len(reads) - 1 ELSE Len(reads)
    IN  /\ Len(reads) <= Len(batch.targetFiles)
        /\ \A k \in 1..Len(reads) : reads[k].file = batch.targetFiles[k]
        /\ batch.successCount + batch.failCount = completed
        /\ batch.pc = "done" =>
              /\ Len(reads) = Len(batch.targetFiles)
              /\ batch.successCount + batch.failCount = Len(batch.targetFiles)
        /\ \A j, k \in 1..Len(BatchRenames) :
              BatchRenames[j].file = BatchRenames[k].file => j = k

\* a batch of two files is done: the first failed, the second was moved
C1_Witness ==
    /\ batch.pc = "done"
    /\ Len(batch.targetFiles) = 2
    /\ batch.failCount = 1 /\ batch.successCount = 1
    /\ ReqIdx("batch", 1, "rename") = {}
    /\ \E k \in ReqIdx("batch", 2, "rename") : requests[k].ok

ExactMatch(tag, rule) == StripHash(rule.tagPattern) = StripHash(tag)

\* some tag of attempt a equals the pattern of some rule
HasExact(a) ==
    \E i \in 1..Len(a.tags), k \in 1..Len(a.cfg.tagRules) :
        ExactMatch(a.tags[i], a.cfg.tagRules[k])

\* the read of attempt a succeeded, so its tags were extracted
Extracted(a) == a.n # 0 /\ a.outcome \notin {"none", "readFail"}

\* C2: in the batch, when some tag equals some rule's pattern the destination
\* is that of a matching rule, as a full path; the prefix fallback is used
\* only when no tag equals any pattern
C2_ExactRuleBeforePrefix ==
    LET a == att["batch"]
    IN  Extracted(a) =>
          /\ HasExact(a) =>
                /\ a.res.kind = "rule" /\ a.res.isFullPath
                /\ \E i \in 1..Len(a.tags), k \in 1..Len(a.cfg.tagRules) :
                      /\ ExactMatch(a.tags[i], a.cfg.tagRules[k])
                      /\ a.res.destination = a.cfg.tagRules[k].destination
          /\ a.res.kind = "prefix" => ~HasExact(a)

\* a rule was applied although a tag with the prefix comes before the tag
\* that matched
C2_Witness ==
    LET a == att["batch"]
        p == FirstWithPrefix(a.tags, StripHash(a.cfg.tagPrefix))
    IN  /\ Extracted(a) /\ a.res.kind = "rule"
        /\ p # 0
        /\ \A i \in 1..p : \A k \in 1..Len(a.cfg.tagRules) :
              ~ExactMatch(a.tags[i], a.cfg.tagRules[k])

\* the earliest tag of a that matches a rule, and the first rule it matches
EarliestMatchingTag(a) ==
    CHOOSE i \in 1..Len(a.tags) :
        /\ \E k \in 1..Len(a.cfg.tagRules) : ExactMatch(a.tags[i], a.cfg.tagRules[k])
        /\ \A j \in 1..(i - 1) : \A k \in 1..Len(a.cfg.tagRules) :
              ~ExactMatch(a.tags[j], a.cfg.tagRules[k])

FirstRuleFor(a, i) ==
    CHOOSE k \in 1..Len(a.cfg.tagRules) :
        /\ ExactMatch(a.tags[i], a.cfg.tagRules[k])
        /\ \A j \in 1..(k - 1) : ~ExactMatch(a.tags[i], a.cfg.tagRules[j])

\* C3: the rule applied is the first rule, in table order, that matches the
\* earliest tag that matches any rule
C3_TagsOuterRulesInner ==
    LET a == att["batch"]
    IN  (Extracted(a) /\ HasExact(a)) =>
          a.res = [kind |-> "rule", isFullPath |-> TRUE,
                   destination |->
                      a.cfg.tagRules[FirstRuleFor(a, EarliestMatchingTag(a))].destination]

\* the rule applied comes later in the table than a rule that matches a
\* later tag, and the two lead to different places
C3_Witness ==
    LET a == att["batch"]
    IN  /\ Extracted(a) /\ HasExact(a)
        /\ LET i == EarliestMatchingTag(a)
               r == FirstRuleFor(a, i)
           IN  \E j \in (i + 1)..Len(a.tags), k \in 1..(r - 1) :
                  /\ ExactMatch(a.tags[j], a.cfg.tagRules[k])
                  /\ a.cfg.tagRules[k].destination # a.cfg.tagRules[r].destination
                  /\ a.res.destination = a.cfg.tagRules[r].destination

\* moveFileToProject was called in attempt a
MoveCalled(a) == Extracted(a) /\ a.res.kind # "none"

\* the segment is empty, is ".", or begins with ".."
Rejectable(seg) == seg = "" \/ seg = "." \/ SubSeq(seg, 1, Clamp(seg, 2)) = ".."

\* C4 (state part): a move whose normalized destination is empty, "." or
\* begins with ".." is refused, and makes no exists, mkdir or rename request
C4_RejectedState ==
    \A c \in Cmds :
        LET a == att[c]
        IN  (MoveCalled(a) /\ Rejectable(normalizePath(a.res.destination))) =>
               /\ a.outcome = "invalid" /\ a.step = "none"
               /\ NoStorageRequest(c, a.n)

\* C4 (step part): the step of the batch that refuses the path counts the
\* file as failed and goes on to the next file, or to the report after the
\* last one
C4_RejectedStep ==
    (att'["batch"] # att["batch"] /\ att'["batch"].outcome = "invalid") =>
        /\ batch'.failCount = batch.failCount + 1
        /\ batch'.successCount = batch.successCount
        /\ batch'.i = batch.i + 1
        /\ batch'.pc = IF batch.i < Len(batch.targetFiles) THEN "read" ELSE "done"

\* C4: path rejection in moveFileToProject, and its effect on the batch
C4_PathRejection == [](C4_RejectedState) /\ [][C4_RejectedStep]_vars

\* the batch refused the path of its first file and has the second to read
C4_Witness ==
    /\ att["batch"].outcome = "invalid" /\ att["batch"].n = 1
    /\ att["batch"].seg = "."
    /\ batch.pc = "read" /\ batch.i = 2 /\ batch.failCount = 1

\* the path begins with a parent-directory segment
BeginsWithParent(path) == path = ".." \/ StartsWith(path, "../")

\* C5: no exists, mkdir or rename request carries a path that begins with a
\* ".." segment; a target that begins with one after the join with rootFolder
\* is refused before any such request
C5_NoTraversalTarget ==
    /\ \A k \in 1..Len(requests) :
          requests[k].op \in StorageOps => ~BeginsWithParent(requests[k].path)
    /\ \A c \in Cmds :
          LET a    == att[c]
              seg  == normalizePath(a.res.destination)
              join == IF a.res.isFullPath THEN seg
                      ELSE a.cfg.rootFolder \o "/" \o seg
          IN  (MoveCalled(a) /\ ~Rejectable(seg)
                 /\ BeginsWithParent(normalizePath(join))) =>
                 /\ a.outcome = "escape" /\ a.step = "none"
                 /\ NoStorageRequest(c, a.n)

\* a destination that is harmless alone was joined with rootFolder "..", and
\* the move was refused
C5_Witness ==
    \E c \in Cmds :
        /\ att[c].outcome = "escape"
        /\ ~Rejectable(att[c].seg)
        /\ BeginsWithParent(att[c].targetPath)

\* C6: when the two commands have handled the same document under the same
\* configuration, they chose the same destination and the same isFullPath
C6_SamePipeline ==
    LET b == att["batch"]
        a == att["single"]
    IN  (Extracted(b) /\ Extracted(a) /\ b.file = a.file /\ b.cfg = a.cfg) =>
           /\ b.res.destination = a.res.destination
           /\ b.res.isFullPath = a.res.isFullPath

\* C7: the batch's succeeded counter is the number of its rename requests
\* that completed; every attempt whose read, mkdir or rename failed is
\* counted in failed and makes no later request
C7_SucceededCountsRenames ==
    LET okRenames == {k \in 1..Len(requests) :
                         /\ requests[k].cmd = "batch"
                         /\ requests[k].op = "rename" /\ requests[k].ok}
        failedIO  == {k \in 1..Len(requests) :
                         /\ requests[k].cmd = "batch" /\ ~requests[k].ok
                         /\ requests[k].op \in {"read", "mkdir", "rename"}}
    IN  /\ batch.successCount = Cardinality(okRenames)
        /\ \A j, k \in failedIO : requests[j].n = requests[k].n => j = k
        /\ \A k \in failedIO : \A j \in (k + 1)..Len(requests) :
              requests[j].cmd = "batch" => requests[j].n > requests[k].n
        /\ Cardinality(failedIO) <= batch.failCount

\* a batch of two files is done: the rename of one failed, that of the other
\* completed
C7_Witness ==
    /\ batch.pc = "done"
    /\ batch.successCount = 1 /\ batch.failCount = 1
    /\ \E j, k \in 1..Len(requests) :
          /\ requests[j].cmd = "batch" /\ requests[j].op = "rename" /\ ~requests[j].ok
          /\ requests[k].cmd = "batch" /\ requests[k].op = "rename" /\ requests[k].ok

\* no tag of a equals a rule's pattern and none starts with the prefix
NothingMatches(a) ==
    /\ ~HasExact(a)
    /\ \A i \in 1..Len(a.tags) : ~StartsWith(a.tags[i], StripHash(a.cfg.tagPrefix))

\* C8 (state part): a file of the batch without tags, or whose tags match
\* nothing, fails without any exists, mkdir or rename request
C8_UnmatchedState ==
    LET a == att["batch"]
    IN  (Extracted(a) /\ (Len(a.tags) = 0 \/ NothingMatches(a))) =>
           /\ a.outcome = (IF Len(a.tags) = 0 THEN "noTags" ELSE "noMatch")
           /\ a.step = "none"
           /\ NoStorageRequest("batch", a.n)

\* C8 (step part): the step that finds no tag or no match counts the file as
\* failed and leaves every file where it is
C8_UnmatchedStep ==
    (att'["batch"] # att["batch"] /\ att'["batch"].outcome \in {"noTags", "noMatch"}) =>
        /\ batch'.failCount = batch.failCount + 1
        /\ batch'.successCount = batch.successCount
        /\ files' = files /\ folders' = folders

\* C8: files without tags or without a matching tag
C8_Unmatched == [](C8_UnmatchedState) /\ [][C8_UnmatchedStep]_vars

\* the first file of the batch had no tags, the second had tags that match
\* nothing; both are counted as failed and only reads were requested
C8_Witness ==
    /\ batch.failCount = 2 /\ batch.successCount = 0
    /\ Len(batch.targetFiles) >= 2
    /\ BatchTags(files[batch.targetFiles[1]].content) = <<>>
    /\ att["batch"].n = 2 /\ att["batch"].outcome = "noMatch"
    /\ Len(att["batch"].tags) > 0
    /\ \A k \in 1..Len(requests) :
          requests[k].cmd = "batch" => requests[k].op = "read" /\ requests[k].ok

\* the invocations of moveFileToProject: attempt n of command c
Invocations == {<<requests[k].cmd, requests[k].n>> : k \in 1..Len(requests)}

\* C9: an invocation makes at most one mkdir and one rename request; the
\* mkdir is for a non-empty folder that the exists check found missing, it
\* comes before the rename, and after a failed mkdir there is no rename and
\* the invocation fails
C9_OneMkdirOneRename ==
    \A v \in Invocations :
        LET c  == v[1]
            n  == v[2]
            mk == ReqIdx(c, n, "mkdir")
            rn == ReqIdx(c, n, "rename")
            ex == ReqIdx(c, n, "exists")
        IN  /\ Cardinality(mk) <= 1 /\ Cardinality(rn) <= 1
            /\ \A m \in mk :
                  /\ requests[m].path # ""
                  /\ \E e \in ex : /\ e < m /\ ~requests[e].ok
                                   /\ requests[e].path = requests[m].path
                  /\ \A r \in rn : m < r
                  /\ ~requests[m].ok =>
                        /\ rn = {}
                        /\ att[c].n = n =>
                              att[c].outcome = "ioFail" /\ att[c].step = "none"
            /\ \A e \in ex : requests[e].ok => mk = {}

\* the mkdir of the batch's first file failed; the batch counted the failure
\* and went on without a rename
C9_Witness ==
    /\ \E m \in ReqIdx("batch", 1, "mkdir") : ~requests[m].ok
    /\ batch.failCount = 1 /\ batch.i = 2
    /\ \E m \in ReqIdx("single", 1, "mkdir") :
          requests[m].ok /\ \E r \in ReqIdx("single", 1, "rename") : m < r

\* the move of attempt a was accepted: a target path was settled
Accepted(a) == a.outcome \in {"inflight", "moved", "ioFail"}

\* the text after the prefix of the first tag of a that starts with it
FallbackText(a) ==
    LET p == StripHash(a.cfg.tagPrefix)
        i == CHOOSE i \in 1..Len(a.tags) :
                /\ StartsWith(a.tags[i], p)
                /\ \A j \in 1..(i - 1) : ~StartsWith(a.tags[j], p)
    IN  SubSeq(a.tags[i], Len(p) + 1, Len(a.tags[i]))

\* the target of attempt a, joined as C10 says, before any normalization
JoinedTarget(a) ==
    LET name == files[a.file].name
    IN  IF a.res.isFullPath THEN a.res.destination \o "/" \o name
        ELSE a.cfg.rootFolder \o "/" \o FallbackText(a) \o "/" \o name

\* every rename request of the batch's current attempt carries its target
RenamesCarryTarget(a) ==
    \A k \in ReqIdx("batch", a.n, "rename") : requests[k].path = a.targetPath

\* C10 as stated: the rename target is the joined string itself
C10_TargetIsJoin ==
    LET a == att["batch"]
    IN  Accepted(a) => a.targetPath = JoinedTarget(a) /\ RenamesCarryTarget(a)

\* C10 as amended: the rename target is normalizePath of the joined string,
\* and it ends with the file's name
C10_TargetIsNormalizedJoin ==
    LET a    == att["batch"]
        name == files[a.file].name
    IN  Accepted(a) =>
           /\ a.targetPath = normalizePath(JoinedTarget(a))
           /\ RenamesCarryTarget(a)
           /\ a.targetPath = name \/ EndsWith(a.targetPath, "/" \o name)

\* a file was moved by the prefix fallback to a target that differs from the
\* joined string
C10_Witness ==
    LET a == att["batch"]
    IN  /\ a.outcome = "moved" /\ ~a.res.isFullPath
        /\ a.targetPath # JoinedTarget(a)
        /\ files[a.file].path = a.targetPath

\* the strings to which attempt a of the batch applied replace(/^#/, ""):
\* the frontmatter tags as parsed (main.js:157), the tags (main.js:182), the
\* rule patterns (main.js:186) and the prefix (main.js:199)
StripHashInputs(a) ==
    LET fm == FrontmatterTags(files[a.file].content)
    IN  {fm[i] : i \in 1..Len(fm)}
           \cup {a.tags[i] : i \in 1..Len(a.tags)}
           \cup {a.cfg.tagRules[k].tagPattern : k \in 1..Len(a.cfg.tagRules)}
           \cup {a.cfg.tagPrefix}

\* C11: every normalization the program applied gives the same result when
\* applied again: the stripping of '#' in the batch, the stripping of quotes
\* and '#' in moveActiveFile
C11_NormalizeIdempotent ==
    /\ Extracted(att["batch"]) =>
          \A t \in StripHashInputs(att["batch"]) :
              StripHash(StripHash(t)) = StripHash(t)
    /\ Extracted(att["single"]) =>
          \A i \in 1..Len(att["single"].tags) :
              CleanTag(CleanTag(att["single"].tags[i])) = CleanTag(att["single"].tags[i])

\* the batch has started and has not yet reported
BatchInFlight == batch.pc \in {"read", "move"}

\* C12: while a batch is in flight no step changes the configuration
C12_ConfigFrozenInFlight == [][BatchInFlight => settings' = settings]_vars

\* path lies under the folder: the folder's name, a '/', and more
UnderFolder(path, folder) ==
    folder = "" \/ StartsWith(path, IF EndsWith(folder, "/") THEN folder
                                    ELSE folder \o "/")

\* C13 (step part): the batch takes exactly the listed files whose path
\* starts with notesFolder and ends with ".md"
C13_FilterStep ==
    (batch.pc = "idle" /\ batch'.pc = "read") =>
        \A k \in 1..Len(files) :
            (\E j \in 1..Len(batch'.targetFiles) : batch'.targetFiles[j] = k)
               <=> (/\ StartsWith(files[k].path, settings.notesFolder)
                    /\ EndsWith(files[k].path, ".md"))

\* C13 (state part): every request of the batch is for a file that the batch
\* read under the notes folder
C13_FrameState ==
    \A k \in 1..Len(requests) :
        requests[k].cmd = "batch" =>
            \E j \in ReqIdx("batch", requests[k].n, "read") :
                /\ j <= k
                /\ UnderFolder(requests[j].path, settings.notesFolder)

\* C13: the batch's filter, and the files its requests are for
C13_BatchFilterFrame == [](C13_FrameState) /\ [][C13_FilterStep]_vars

\* the positions after the opening "---" at which a line starts with "---"
Closings(content) ==
    {q \in 4..(Len(content) - 3) : SubSeq(content, q, q + 3) = "\n---"}

\* the text opens a frontmatter block and never closes it
Unterminated(content) == StartsWith(content, "---") /\ Closings(content) = {}

\* the text has a frontmatter block that the YAML parser refuses
ParseFails(content) ==
    /\ FrontmatterMatch(content).found
    /\ ~ParseYamlTags(FrontmatterMatch(content).block).ok

\* the text after the first closing "---" line start
AfterFirstClosing(content) ==
    LET q == CHOOSE x \in Closings(content) : \A y \in Closings(content) : x <= y
    IN  SubSeq(content, q + 4, Len(content))

\* the read of attempt a of the batch succeeded
ReadOk(a) == \E k \in ReqIdx("batch", a.n, "read") : requests[k].ok

\* C14: a batch file whose frontmatter is unterminated or fails to parse is
\* still processed: no frontmatter tag is taken, the tags are the body
\* tokens in scan order (of the whole text when the block is unterminated,
\* of the text after the block when it fails to parse), and the file fails
\* for lack of tags only when the body has none
C14_MalformedFrontmatter ==
    LET a    == att["batch"]
        text == files[a.file].content
        body == IF Unterminated(text) THEN text ELSE AfterFirstClosing(text)
    IN  (a.n # 0 /\ ReadOk(a) /\ (Unterminated(text) \/ ParseFails(text))) =>
           /\ Extracted(a)
           /\ FrontmatterTags(text) = <<>>
           /\ a.tags = BodyTokens(Chunks(body))
           /\ (a.outcome = "noTags") <=> (BodyTokens(Chunks(body)) = <<>>)
           /\ (a.outcome = "noMatch") <=> (a.tags # <<>> /\ a.res.kind = "none")

\* a batch of two files is done and has moved both: the first has an
\* unterminated frontmatter, the second a frontmatter that fails to parse and
\* went where its body tag says
C14_Witness ==
    LET a == att["batch"]
    IN  /\ batch.pc = "done" /\ batch.successCount = 2
        /\ Len(batch.targetFiles) = 2
        /\ Unterminated(files[batch.targetFiles[1]].content)
        /\ a.n = 2 /\ a.outcome = "moved"
        /\ ParseFails(files[a.file].content)
        /\ a.res.kind = "prefix"
        /\ \E i \in 1..Len(a.tags) :
              a.tags[i] = StripHash(a.cfg.tagPrefix) \o a.res.destination

\* C15 (state part): the batch waits exactly while a move of its own is in
\* flight, the requests of the batch come attempt by attempt, and the read
\* is the first request of its attempt
C15_OneAtATime ==
    /\ (batch.pc = "move") <=> (att["batch"].step # "none")
    /\ \A j, k \in 1..Len(requests) :
          (j < k /\ requests[j].cmd = "batch" /\ requests[k].cmd = "batch") =>
              /\ requests[j].n <= requests[k].n
              /\ requests[k].op = "read" => requests[j].n < requests[k].n

\* C15: the relocations of a batch are strictly sequential, and a batch that
\* has started reaches its final report
C15_SequentialAndFinishes ==
    [](C15_OneAtATime) /\ (BatchInFlight ~> (batch.pc = "done"))

\* the batch reads its second file after the mkdir and the rename of the
\* first
C15_Witness ==
    /\ \E r \in ReqIdx("batch", 1, "rename"), m \in ReqIdx("batch", 1, "mkdir"),
          k \in ReqIdx("batch", 2, "read") : m < r /\ r < k
    /\ batch.pc = "done"

====
